---- MODULE Spec2Model ----
(***************************************************************************)
(* CanvasNode (src/030-classes/108.5-getters.solution.ts): a class with    *)
(* two fields x and y, a constructor taking an optional position, a getter *)
(* `position` returning a fresh object literal, and a method `move`.       *)
(*                                                                         *)
(* JavaScript values are records [t, v]: t is the kind of value, v the     *)
(* integer of a finite number or the address of an object reference.       *)
(* Objects live in a heap indexed by address, so that aliasing between a   *)
(* node, the object its getter returns and the literal handed to its       *)
(* constructor is something the model can express.  The caller is the      *)
(* test body: it binds a node to a variable, reads canvasNode.position     *)
(* into a variable, calls move and writes to the object it was handed.     *)
(***************************************************************************)
EXTENDS Integers, FiniteSets, Sequences, TLC

\* Finite numbers range over -MaxCoord..MaxCoord.
MaxCoord == 1
\* Heap addresses are 1..MaxAddr.
MaxAddr == 5

Addr == 1..MaxAddr

\* The caller's variables: the tests' `canvasNode`, and one holding the
\* value of the expression `canvasNode.position`.
NodeVars == {"canvasNode"}
SnapVars == {"snapshot"}

----------------------------------------------------------------------------
\* JavaScript values

Fin(n) == [t |-> "finite", v |-> n]
NaN == [t |-> "NaN", v |-> 0]
PosInf == [t |-> "Infinity", v |-> 0]
NegInf == [t |-> "-Infinity", v |-> 0]
Undefined == [t |-> "undefined", v |-> 0]
Null == [t |-> "null", v |-> 0]
Ref(a) == [t |-> "ref", v |-> a]
\* Marks a property an object does not have; never a value of the language.
Absent == [t |-> "absent", v |-> 0]
\* Completion of an expression that threw a TypeError.
Throw == [t |-> "throw", v |-> 0]

Finite == {Fin(n) : n \in -MaxCoord..MaxCoord}
\* The values of type `number`.
Num == Finite \cup {NaN, PosInf, NegInf}

IsFinite(val) == val.t = "finite"
IsNumber(val) == val.t \in {"finite", "NaN", "Infinity", "-Infinity"}
IsNullish(val) == val.t \in {"undefined", "null"}

----------------------------------------------------------------------------
\* The heap

FreeObj == [cls |-> "free", x |-> Absent, y |-> Absent]

IsFree(h, a) == h[a].cls = "free"
HasFree(h, k) == Cardinality({a \in Addr : IsFree(h, a)}) >= k
FirstFree(h) == CHOOSE a \in Addr : IsFree(h, a) /\ \A b \in Addr : b < a => ~IsFree(h, b)

\* An object literal { x: vx, y: vy }; a property given as Absent is left out.
ObjectLiteral(h, vx, vy) ==
    LET a == FirstFree(h)
    IN [heap |-> [h EXCEPT ![a] = [cls |-> "Object", x |-> vx, y |-> vy]], ret |-> Ref(a)]

\* base.p: a TypeError on undefined and null, undefined for a property the
\* base does not have.
GetProp(h, base, p) ==
    IF IsNullish(base) THEN Throw
    ELSE IF base.t # "ref" THEN Undefined
    ELSE LET val == IF p = "x" THEN h[base.v].x ELSE h[base.v].y
         IN IF val = Absent THEN Undefined ELSE val

\* base.p = val
SetProp(h, base, p, val) ==
    IF p = "x" THEN [h EXCEPT ![base.v].x = val] ELSE [h EXCEPT ![base.v].y = val]

\* Objects no variable refers to are reclaimed (objects here hold no references).
GC(h, roots) == [a \in Addr |-> IF a \in roots THEN h[a] ELSE FreeObj]

----------------------------------------------------------------------------
\* class CanvasNode

\* Variant: base.p, without the optional chain.
OptChain_strict(h, base, p) == GetProp(h, base, p)

\* base?.p
OptChain(h, base, p) == IF IsNullish(base) THEN Undefined ELSE GetProp(h, base, p)

\* Variant: the default left out, `a` alone.
Nullish_missing(a, b) == a

\* Variant: a || b, which also replaces the falsy numbers 0 and NaN.
Nullish_or(a, b) == IF IsNullish(a) \/ a = Fin(0) \/ a = NaN THEN b ELSE a

\* a ?? b
Nullish(a, b) == IF IsNullish(a) THEN b ELSE a

\* The literal 0 of the constructor's defaults.
Zero == Fin(0)

\* new CanvasNode: the instance with its declared fields x and y, before the
\* constructor body runs.
CanvasNode(h) ==
    LET a == FirstFree(h)
    IN [heap |-> [h EXCEPT ![a] = [cls |-> "CanvasNode", x |-> Undefined, y |-> Undefined]],
        ret |-> Ref(a)]

\* Variant: this.y is read from position?.x.
constructor_yFromX(h, this, position) ==
    LET px == OptChain(h, position, "x")
    IN IF px = Throw THEN [heap |-> h, threw |-> TRUE]
       ELSE LET h1 == SetProp(h, this, "x", Nullish(px, Zero))
                py == OptChain(h1, position, "x")
            IN IF py = Throw THEN [heap |-> h1, threw |-> TRUE]
               ELSE [heap |-> SetProp(h1, this, "y", Nullish(py, Zero)), threw |-> FALSE]

\* Variant: the default applies to the configuration as a whole, so that a
\* configuration missing either property gives { x: 0, y: 0 }.
constructor_allOrNothing(h, this, position) ==
    LET px == OptChain(h, position, "x")
        py == OptChain(h, position, "y")
    IN IF px = Throw \/ py = Throw THEN [heap |-> h, threw |-> TRUE]
       ELSE IF IsNullish(px) \/ IsNullish(py)
            THEN [heap |-> SetProp(SetProp(h, this, "x", Zero), this, "y", Zero), threw |-> FALSE]
            ELSE [heap |-> SetProp(SetProp(h, this, "x", px), this, "y", py), threw |-> FALSE]

\* Variant: the default is taken from state shared by all nodes, the number
\* of nodes made before this one (static count), so that new nodes do not
\* stack on one another.
constructor_cascade(h, this, position) ==
    LET count == Fin(Cardinality({a \in Addr : h[a].cls = "CanvasNode"}) - 1)
        px == OptChain(h, position, "x")
    IN IF px = Throw THEN [heap |-> h, threw |-> TRUE]
       ELSE LET h1 == SetProp(h, this, "x", Nullish(px, count))
                py == OptChain(h1, position, "y")
            IN IF py = Throw THEN [heap |-> h1, threw |-> TRUE]
               ELSE [heap |-> SetProp(h1, this, "y", Nullish(py, count)), threw |-> FALSE]

\* constructor(position?) { this.x = position?.x ?? 0; this.y = position?.y ?? 0; }
constructor(h, this, position) ==
    LET px == OptChain(h, position, "x")
    IN IF px = Throw THEN [heap |-> h, threw |-> TRUE]
       ELSE LET h1 == SetProp(h, this, "x", Nullish(px, Zero))
                py == OptChain(h1, position, "y")
            IN IF py = Throw THEN [heap |-> h1, threw |-> TRUE]
               ELSE [heap |-> SetProp(h1, this, "y", Nullish(py, Zero)), threw |-> FALSE]

\* Variant: return this.
get_position_alias(h, this) == [heap |-> h, ret |-> this]

\* Variant: return { x: this.y, y: this.x }.
get_position_swapped(h, this) == ObjectLiteral(h, GetProp(h, this, "y"), GetProp(h, this, "x"))

\* Variant: a read that resets the node to the origin after taking the snapshot.
get_position_drain(h, this) ==
    LET r == ObjectLiteral(h, GetProp(h, this, "x"), GetProp(h, this, "y"))
    IN [heap |-> SetProp(SetProp(r.heap, this, "x", Zero), this, "y", Zero), ret |-> r.ret]

\* Variant: one object kept and refreshed on every read: the earliest object
\* literal still alive is overwritten and returned again.
get_position_cached(h, this) ==
    IF \E a \in Addr : h[a].cls = "Object"
    THEN LET a == CHOOSE c \in Addr : h[c].cls = "Object" /\ \A b \in Addr : b < c => h[b].cls # "Object"
         IN [heap |-> [h EXCEPT ![a] = [cls |-> "Object", x |-> GetProp(h, this, "x"),
                                                          y |-> GetProp(h, this, "y")]],
             ret |-> Ref(a)]
    ELSE ObjectLiteral(h, GetProp(h, this, "x"), GetProp(h, this, "y"))

\* get position() { return { x: this.x, y: this.y }; }
get_position(h, this) == ObjectLiteral(h, GetProp(h, this, "x"), GetProp(h, this, "y"))

\* Variant: this.x = y; this.y = x.
move_swapped(h, this, x, y) == SetProp(SetProp(h, this, "x", y), this, "y", x)

\* Variant: x and y kept per class instead of per instance (static x; static
\* y): the write reaches every node.
move_static(h, this, x, y) ==
    [a \in Addr |-> IF h[a].cls = "CanvasNode" THEN [h[a] EXCEPT !.x = x, !.y = y] ELSE h[a]]

\* Variant: the write skipped when x is the x the node already has:
\* if (this.x !== x) { this.x = x; this.y = y; }
move_unlessSameX(h, this, x, y) ==
    IF GetProp(h, this, "x") = x /\ x # NaN THEN h
    ELSE SetProp(SetProp(h, this, "x", x), this, "y", y)

\* Variant: this.x = x only.
move_partial(h, this, x, y) == SetProp(h, this, "x", x)

\* move(x, y) { this.x = x; this.y = y; }
move(h, this, x, y) == SetProp(SetProp(h, this, "x", x), this, "y", y)

----------------------------------------------------------------------------
\* State

VARIABLES
    heap,       \* the objects, by address
    nodeVar,    \* the caller's node variables: Undefined or a reference
    snapVar,    \* the caller's variables holding a plain { x, y } object: a result
                \* of .position, or a configuration
    err,        \* TRUE once an operation has thrown
    op,         \* the operation the last step performed, with its arguments
    lastSet     \* per node variable, the operation that last set the node's fields:
                \* by "new" with the argument as given (arg, cx, cy) and the pair the
                \* constructor stored (x, y), or by "move" with its arguments (x, y)

vars == <<heap, nodeVar, snapVar, err, op, lastSet>>

NotSet == [by |-> "none", arg |-> "-", cx |-> Absent, cy |-> Absent, x |-> Absent, y |-> Absent]

NoOp == [name |-> "init", node |-> "-", snap |-> "-", arg |-> "-", x |-> Absent, y |-> Absent]

Roots(nv, sv) == {nv[n].v : n \in {m \in DOMAIN nv : nv[m].t = "ref"}}
                 \cup {sv[s].v : s \in {m \in DOMAIN sv : sv[m].t = "ref"}}

\* The value { x, y } of the object a reference points to.
Fields(h, r) == [x |-> h[r.v].x, y |-> h[r.v].y]

Init ==
    /\ heap = [a \in Addr |-> FreeObj]
    /\ nodeVar = [n \in NodeVars |-> Undefined]
    /\ snapVar = [s \in SnapVars |-> Undefined]
    /\ err = FALSE
    /\ op = NoOp
    /\ lastSet = [n \in NodeVars |-> NotSet]

----------------------------------------------------------------------------
\* The caller's steps

\* The values a property of the configuration literal may be given; Absent
\* leaves the property out.
CfgVals == Num \cup {Undefined, Null, Absent}

\* Variant: the node keeps the configuration object it is given as its own
\* state instead of copying x and y out of it; the defaults are filled in there.
Construct_aliased(n, h0, position, argKind, cx, cy) ==
    LET made == IF position.t = "ref" THEN [heap |-> h0, ret |-> position] ELSE CanvasNode(h0)
        r == constructor(made.heap, made.ret, position)
        nv2 == [nodeVar EXCEPT ![n] = made.ret]
    IN /\ op' = [name |-> "new", node |-> n, snap |-> "-", arg |-> argKind, x |-> Absent, y |-> Absent]
       /\ IF r.threw
          THEN /\ err' = TRUE
               /\ heap' = GC(r.heap, Roots(nodeVar, snapVar))
               /\ UNCHANGED <<nodeVar, lastSet>>
          ELSE /\ nodeVar' = nv2
               /\ heap' = GC(r.heap, Roots(nv2, snapVar))
               /\ lastSet' = [lastSet EXCEPT ![n] =
                                [by |-> "new", arg |-> argKind, cx |-> cx, cy |-> cy,
                                 x |-> r.heap[made.ret.v].x, y |-> r.heap[made.ret.v].y]]
               /\ UNCHANGED err
       /\ UNCHANGED snapVar

\* const n = new CanvasNode(position), position evaluated in heap h0.
Construct(n, h0, position, argKind, cx, cy) ==
    LET made == CanvasNode(h0)
        r == constructor(made.heap, made.ret, position)
        nv2 == [nodeVar EXCEPT ![n] = made.ret]
    IN /\ op' = [name |-> "new", node |-> n, snap |-> "-", arg |-> argKind, x |-> Absent, y |-> Absent]
       /\ IF r.threw
          THEN /\ err' = TRUE
               /\ heap' = GC(r.heap, Roots(nodeVar, snapVar))
               /\ UNCHANGED <<nodeVar, lastSet>>
          ELSE /\ nodeVar' = nv2
               /\ heap' = GC(r.heap, Roots(nv2, snapVar))
               /\ lastSet' = [lastSet EXCEPT ![n] =
                                [by |-> "new", arg |-> argKind, cx |-> cx, cy |-> cy,
                                 x |-> r.heap[made.ret.v].x, y |-> r.heap[made.ret.v].y]]
               /\ UNCHANGED err
       /\ UNCHANGED snapVar

\* const n = new CanvasNode()   (position is undefined; null is let through by ?.)
NewDefault(n) ==
    /\ ~err
    /\ nodeVar[n] = Undefined
    /\ HasFree(heap, 1)
    /\ \E position \in {Undefined, Null} :
          Construct(n, heap, position, position.t, Absent, Absent)

\* const n = new CanvasNode({ x: cx, y: cy }), cx and cy among the values D
NewWithOf(n, D) ==
    /\ ~err
    /\ nodeVar[n] = Undefined
    /\ HasFree(heap, 2)
    /\ \E cx \in D, cy \in D :
          LET lit == ObjectLiteral(heap, cx, cy)
          IN Construct(n, lit.heap, lit.ret, "object", cx, cy)

\* const n = new CanvasNode({ x: cx, y: cy })
NewWith(n) == NewWithOf(n, CfgVals)

\* s = n.position
Position(n, s) ==
    /\ ~err
    /\ nodeVar[n].t = "ref"
    /\ HasFree(heap, 1)
    /\ LET r == get_position(heap, nodeVar[n])
           sv2 == [snapVar EXCEPT ![s] = r.ret]
       IN /\ snapVar' = sv2
          /\ heap' = GC(r.heap, Roots(nodeVar, sv2))
    /\ op' = [name |-> "position", node |-> n, snap |-> s,
              arg |-> IF op.name = "position" /\ op.node = n THEN "again" ELSE "-",
              x |-> Absent, y |-> Absent]
    /\ UNCHANGED <<nodeVar, err, lastSet>>

\* n.move(a, b), a and b among the numbers D
MoveOf(n, D) ==
    /\ ~err
    /\ nodeVar[n].t = "ref"
    /\ \E a \in D, b \in D :
          /\ heap' = move(heap, nodeVar[n], a, b)
          /\ op' = [name |-> "move", node |-> n, snap |-> "-", arg |-> "-", x |-> a, y |-> b]
          /\ lastSet' = [lastSet EXCEPT ![n] =
                           [by |-> "move", arg |-> "-", cx |-> Absent, cy |-> Absent, x |-> a, y |-> b]]
    /\ UNCHANGED <<nodeVar, snapVar, err>>

\* n.move(a, b)
Move(n) == MoveOf(n, Num)

\* s.x = val  or  s.y = val with val among the numbers D, on the object a
\* position query returned
SetSnapOf(s, D) ==
    /\ ~err
    /\ snapVar[s].t = "ref"
    /\ \E p \in {"x", "y"}, val \in D :
          heap' = SetProp(heap, snapVar[s], p, val)
    /\ op' = [name |-> "setSnap", node |-> "-", snap |-> s, arg |-> "-", x |-> Absent, y |-> Absent]
    /\ UNCHANGED <<nodeVar, snapVar, err, lastSet>>

\* s.x = val  or  s.y = val
SetSnap(s) == SetSnapOf(s, Num)

Next ==
    \/ \E n \in NodeVars : NewDefault(n)
    \/ \E n \in NodeVars : NewWith(n)
    \/ \E n \in NodeVars, s \in SnapVars : Position(n, s)
    \/ \E n \in NodeVars : Move(n)
    \/ \E s \in SnapVars : SetSnap(s)

Spec == Init /\ [][Next]_vars

----------------------------------------------------------------------------
\* Other callers.  Each is a caller with other variables than the tests'; the
\* numbers it passes are finite ones.

\* The state before the caller's first statement, for a caller with node
\* variables nv and object variables sv.
InitOn(nv, sv) ==
    /\ heap = [a \in Addr |-> FreeObj]
    /\ nodeVar = [n \in nv |-> Undefined]
    /\ snapVar = [s \in sv |-> Undefined]
    /\ err = FALSE
    /\ op = NoOp
    /\ lastSet = [n \in nv |-> NotSet]

\* The finite numbers from 0 up.
NonNeg == {Fin(n) : n \in 0..MaxCoord}

\* n.move(a, b) with a and b in NonNeg
MoveNonNeg(n) == MoveOf(n, NonNeg)

\* s.x = val or s.y = val with val in NonNeg
SetSnapNonNeg(s) == SetSnapOf(s, NonNeg)

\* const n = new CanvasNode({ x: cx, y: cy }) with cx and cy in NonNeg
NewWithNonNeg(n) == NewWithOf(n, NonNeg)

\* A caller that keeps two results of .position of one node:
\*   const first = canvasNode.position; ... const second = canvasNode.position;
TwoSnaps == {"first", "second"}

InitSnaps == InitOn(NodeVars, TwoSnaps)

NextSnaps ==
    \/ \E n \in NodeVars : NewDefault(n)
    \/ \E n \in NodeVars, s \in TwoSnaps : Position(n, s)
    \/ \E n \in NodeVars : MoveNonNeg(n)
    \/ \E s \in TwoSnaps : SetSnapNonNeg(s)

SpecSnaps == InitSnaps /\ [][NextSnaps]_vars

\* A caller with two nodes, each constructed, moved and queried on its own:
\*   const left = new CanvasNode(...); const right = new CanvasNode(...);
TwoNodes == {"left", "right"}

InitTwo == InitOn(TwoNodes, SnapVars)

NextTwo ==
    \/ \E n \in TwoNodes : NewDefault(n)
    \/ \E n \in TwoNodes : NewWithNonNeg(n)
    \/ \E n \in TwoNodes, s \in SnapVars : Position(n, s)
    \/ \E n \in TwoNodes : MoveNonNeg(n)

SpecTwo == InitTwo /\ [][NextTwo]_vars

\* A caller comparing two ways to a position: `left` is constructed with a
\* full configuration of numbers, `right` with none; both are then moved.
NewWithNum(n) == NewWithOf(n, Num)

NextOverwrite ==
    \/ NewWithNum("left")
    \/ NewDefault("right")
    \/ \E n \in TwoNodes : Move(n)

SpecOverwrite == InitTwo /\ [][NextOverwrite]_vars

\* A caller that keeps the configuration in a variable of its own:
\*   const config = { x: ..., y: ... }; const canvasNode = new CanvasNode(config);
\*   config.x = ...; canvasNode.move(...); canvasNode.position
ConfigVars == {"config"}

\* A property of the configuration is a NonNeg number or left out.
ConfigSample == NonNeg \cup {Absent}

\* const c = { x: cx, y: cy }
NewConfig(c) ==
    /\ ~err
    /\ snapVar[c] = Undefined
    /\ HasFree(heap, 1)
    /\ \E cx \in ConfigSample, cy \in ConfigSample :
          LET lit == ObjectLiteral(heap, cx, cy)
          IN /\ heap' = lit.heap
             /\ snapVar' = [snapVar EXCEPT ![c] = lit.ret]
    /\ op' = [name |-> "newConfig", node |-> "-", snap |-> c, arg |-> "-", x |-> Absent, y |-> Absent]
    /\ UNCHANGED <<nodeVar, err, lastSet>>

\* const n = new CanvasNode(c)
NewFrom(n, c) ==
    /\ ~err
    /\ nodeVar[n] = Undefined
    /\ snapVar[c].t = "ref"
    /\ HasFree(heap, 1)
    /\ Construct(n, heap, snapVar[c], "object", heap[snapVar[c].v].x, heap[snapVar[c].v].y)

InitConfig == InitOn(NodeVars, ConfigVars \cup SnapVars)

NextConfig ==
    \/ \E c \in ConfigVars : NewConfig(c)
    \/ \E n \in NodeVars, c \in ConfigVars : NewFrom(n, c)
    \/ \E c \in ConfigVars : SetSnapNonNeg(c)
    \/ \E n \in NodeVars : MoveNonNeg(n)
    \/ \E n \in NodeVars, s \in SnapVars : Position(n, s)

SpecConfig == InitConfig /\ [][NextConfig]_vars

\* A caller that runs one sequence of operations on two nodes, statement by
\* statement on `left` and then on `right`, keeping each node's last result:
\*   const left = new CanvasNode(c);  const right = new CanvasNode(c);
\*   left.move(a, b);                 right.move(a, b);
\*   leftPos = left.position;         rightPos = right.position;
PairSnaps == {"leftPos", "rightPos"}

\* new CanvasNode(position) evaluated in heap h0, position being undefined
\* (argKind "undefined") or the literal { x: cx, y: cy } (argKind "object").
Built(h0, argKind, cx, cy) ==
    LET lit == IF argKind = "object" THEN ObjectLiteral(h0, cx, cy)
                                     ELSE [heap |-> h0, ret |-> Undefined]
        made == CanvasNode(lit.heap)
        r == constructor(made.heap, made.ret, lit.ret)
    IN [heap |-> r.heap, ret |-> made.ret, threw |-> r.threw]

BothNewOf(argKind, cx, cy) ==
    LET b1 == Built(heap, argKind, cx, cy)
        h1 == GC(b1.heap, {b1.ret.v})
        b2 == Built(h1, argKind, cx, cy)
        h2 == GC(b2.heap, {b1.ret.v, b2.ret.v})
        set1 == [by |-> "new", arg |-> argKind, cx |-> cx, cy |-> cy,
                 x |-> h2[b1.ret.v].x, y |-> h2[b1.ret.v].y]
        set2 == [by |-> "new", arg |-> argKind, cx |-> cx, cy |-> cy,
                 x |-> h2[b2.ret.v].x, y |-> h2[b2.ret.v].y]
    IN /\ op' = [name |-> "new", node |-> "both", snap |-> "-", arg |-> argKind, x |-> Absent, y |-> Absent]
       /\ IF b1.threw \/ b2.threw
          THEN /\ err' = TRUE
               /\ UNCHANGED <<heap, nodeVar, lastSet>>
          ELSE /\ heap' = h2
               /\ nodeVar' = [nodeVar EXCEPT !["left"] = b1.ret, !["right"] = b2.ret]
               /\ lastSet' = [lastSet EXCEPT !["left"] = set1, !["right"] = set2]
               /\ UNCHANGED err
       /\ UNCHANGED snapVar

\* const left = new CanvasNode(); const right = new CanvasNode();
BothNewDefault ==
    /\ ~err
    /\ nodeVar["left"] = Undefined /\ nodeVar["right"] = Undefined
    /\ HasFree(heap, 2)
    /\ BothNewOf("undefined", Absent, Absent)

\* const left = new CanvasNode({ x: cx, y: cy }); const right = new CanvasNode({ x: cx, y: cy });
BothNewWith ==
    /\ ~err
    /\ nodeVar["left"] = Undefined /\ nodeVar["right"] = Undefined
    /\ HasFree(heap, 3)
    /\ \E cx \in CfgVals, cy \in CfgVals : BothNewOf("object", cx, cy)

\* left.move(a, b); right.move(a, b);
BothMove ==
    /\ ~err
    /\ nodeVar["left"].t = "ref" /\ nodeVar["right"].t = "ref"
    /\ \E a \in Num, b \in Num :
          LET set == [by |-> "move", arg |-> "-", cx |-> Absent, cy |-> Absent, x |-> a, y |-> b]
          IN /\ heap' = move(move(heap, nodeVar["left"], a, b), nodeVar["right"], a, b)
             /\ op' = [name |-> "move", node |-> "both", snap |-> "-", arg |-> "-", x |-> a, y |-> b]
             /\ lastSet' = [lastSet EXCEPT !["left"] = set, !["right"] = set]
    /\ UNCHANGED <<nodeVar, snapVar, err>>

\* leftPos = left.position; rightPos = right.position;
BothPosition ==
    /\ ~err
    /\ nodeVar["left"].t = "ref" /\ nodeVar["right"].t = "ref"
    /\ HasFree(heap, 1)
    /\ LET r1 == get_position(heap, nodeVar["left"])
           sv1 == [snapVar EXCEPT !["leftPos"] = r1.ret]
           h1 == GC(r1.heap, Roots(nodeVar, sv1))
           r2 == get_position(h1, nodeVar["right"])
           sv2 == [sv1 EXCEPT !["rightPos"] = r2.ret]
       IN /\ snapVar' = sv2
          /\ heap' = GC(r2.heap, Roots(nodeVar, sv2))
    /\ op' = [name |-> "position", node |-> "both", snap |-> "both", arg |-> "-", x |-> Absent, y |-> Absent]
    /\ UNCHANGED <<nodeVar, err, lastSet>>

InitPair == InitOn(TwoNodes, PairSnaps)

NextPair ==
    \/ BothNewDefault
    \/ BothNewWith
    \/ BothMove
    \/ BothPosition

SpecPair == InitPair /\ [][NextPair]_vars

----------------------------------------------------------------------------
\* Properties

Pair(a, b) == [x |-> a, y |-> b]

\* A node variable that holds a node.
Bound(n) == nodeVar[n].t = "ref"

\* The fields of the node in variable n.
NodeFields(n) == Fields(heap, nodeVar[n])

\* The object the position query of the last step returned.
IsQuery == op.name = "position"
Result == Fields(heap, snapVar[op.snap])

\* C1: a position query returns the pair given to the most recent move on the
\* node, or the pair the constructor established when the node has not been
\* moved since.
C1_QueryReturnsLastSet ==
    IsQuery => Result = Pair(lastSet[op.node].x, lastSet[op.node].y)

\* A query answered { x: 1, y: -1 } after move(1, -1).
C1_Witness ==
    /\ IsQuery
    /\ lastSet[op.node].by = "move"
    /\ lastSet[op.node].x = Fin(1) /\ lastSet[op.node].y = Fin(-1)
    /\ Result = Pair(Fin(1), Fin(-1))

\* C2: a node constructed with no configuration answers a position query
\* with { x: 0, y: 0 }.
C2_DefaultConstruction ==
    (IsQuery /\ lastSet[op.node].by = "new" /\ lastSet[op.node].arg = "undefined")
        => Result = Pair(Fin(0), Fin(0))

C2_Witness ==
    /\ IsQuery
    /\ lastSet[op.node].by = "new" /\ lastSet[op.node].arg = "undefined"
    /\ Result = Pair(Fin(0), Fin(0))

\* C3: a node constructed with { x: a, y: b }, a and b numbers, answers a
\* position query with { x: a, y: b }.
C3_FullConfiguration ==
    (/\ IsQuery
     /\ lastSet[op.node].by = "new" /\ lastSet[op.node].arg = "object"
     /\ IsNumber(lastSet[op.node].cx) /\ IsNumber(lastSet[op.node].cy))
        => Result = Pair(lastSet[op.node].cx, lastSet[op.node].cy)

\* Constructed with { x: 0, y: -1 } and queried.
C3_Witness ==
    /\ IsQuery
    /\ lastSet[op.node].by = "new" /\ lastSet[op.node].arg = "object"
    /\ lastSet[op.node].cx = Fin(0) /\ lastSet[op.node].cy = Fin(-1)
    /\ Result = Pair(Fin(0), Fin(-1))

\* The value the specification gives a configured property: the number
\* supplied, 0 for a property that is absent, undefined or null.
SuppliedOr0(val) == IF IsNumber(val) THEN val ELSE Fin(0)

\* C4: each property of the configuration defaults to 0 on its own: with a
\* property absent, undefined or null, the query gives 0 for it and the
\* supplied number for the other.
C4_IndependentDefaults ==
    (/\ IsQuery
     /\ lastSet[op.node].by = "new" /\ lastSet[op.node].arg = "object"
     /\ ~(IsNumber(lastSet[op.node].cx) /\ IsNumber(lastSet[op.node].cy)))
        => Result = Pair(SuppliedOr0(lastSet[op.node].cx), SuppliedOr0(lastSet[op.node].cy))

\* Constructed with { y: 1 } alone and queried: { x: 0, y: 1 }.
C4_Witness ==
    /\ IsQuery
    /\ lastSet[op.node].by = "new" /\ lastSet[op.node].arg = "object"
    /\ lastSet[op.node].cx = Absent /\ lastSet[op.node].cy = Fin(1)
    /\ Result = Pair(Fin(0), Fin(1))

\* C5: writing to the object a position query returned changes neither the
\* node's fields nor what its next position query returns.
C5_SnapshotIndependence ==
    [][/\ op'.name = "setSnap" =>
            \A n \in NodeVars : Bound(n) =>
                /\ nodeVar'[n] = nodeVar[n]
                /\ Fields(heap', nodeVar'[n]) = Fields(heap, nodeVar[n])
       /\ (op.name = "setSnap" /\ op'.name = "position") =>
            Fields(heap', snapVar'[op'.snap]) = Pair(lastSet[op'.node].x, lastSet[op'.node].y)
      ]_vars

\* The returned object was overwritten and now differs from the node in x and y.
C5_Witness ==
    /\ op.name = "setSnap"
    /\ \E n \in NodeVars :
          /\ Bound(n)
          /\ snapVar[op.snap] # nodeVar[n]
          /\ Fields(heap, snapVar[op.snap]).x # NodeFields(n).x
          /\ Fields(heap, snapVar[op.snap]).y # NodeFields(n).y

\* C6 as stated: x and y of every node are finite numbers in every reachable
\* state.
C6_AlwaysFinite ==
    \A n \in NodeVars : Bound(n) => IsFinite(NodeFields(n).x) /\ IsFinite(NodeFields(n).y)

\* The value the operation that last set node n supplied for x, and for y.
SuppliedX(n) == IF lastSet[n].by = "move" THEN lastSet[n].x ELSE lastSet[n].cx
SuppliedY(n) == IF lastSet[n].by = "move" THEN lastSet[n].y ELSE lastSet[n].cy

\* C6, amended: x and y of every node are always numbers; a coordinate is
\* finite unless the operation that last set it was given NaN, Infinity or
\* -Infinity for it, and then it is that value.
C6_NumbersFiniteUnlessSupplied ==
    \A n \in NodeVars : Bound(n) =>
        /\ IsNumber(NodeFields(n).x) /\ IsNumber(NodeFields(n).y)
        /\ IF IsNumber(SuppliedX(n)) /\ ~IsFinite(SuppliedX(n))
           THEN NodeFields(n).x = SuppliedX(n) ELSE IsFinite(NodeFields(n).x)
        /\ IF IsNumber(SuppliedY(n)) /\ ~IsFinite(SuppliedY(n))
           THEN NodeFields(n).y = SuppliedY(n) ELSE IsFinite(NodeFields(n).y)

\* Constructed with { x: Infinity }: x is Infinity, y is the default.
C6_Witness ==
    \E n \in NodeVars :
        /\ Bound(n)
        /\ lastSet[n].by = "new" /\ lastSet[n].cx = PosInf /\ lastSet[n].cy = Absent
        /\ NodeFields(n) = Pair(PosInf, Fin(0))

\* C7: two position queries on a node in succession, nothing in between,
\* return objects that are equal by value.
C7_QueryTwiceEqual ==
    [][(op.name = "position" /\ op'.name = "position" /\ op'.node = op.node) =>
            Fields(heap', snapVar'[op'.snap]) = Fields(heap, snapVar[op.snap])
      ]_vars

\* A second query in a row, on a node at { x: NaN, y: 1 }.
C7_Witness ==
    /\ IsQuery /\ op.arg = "again"
    /\ Result = Pair(NaN, Fin(1))

\* C8: a position query leaves the node as it was and returns an object with
\* the x and y the node has at the call.
C8_QueryHasNoSideEffect ==
    [][op'.name = "position" =>
            /\ nodeVar' = nodeVar
            /\ err' = err
            /\ Fields(heap', nodeVar'[op'.node]) = Fields(heap, nodeVar[op'.node])
            /\ Fields(heap', snapVar'[op'.snap]) = Fields(heap, nodeVar[op'.node])
      ]_vars

\* A query returned a new object holding the node's { x: -1, y: Infinity }.
C8_Witness ==
    /\ IsQuery
    /\ snapVar[op.snap] # nodeVar[op.node]
    /\ NodeFields(op.node) = Pair(Fin(-1), PosInf)
    /\ Result = NodeFields(op.node)

\* C9: no operation throws: construction with or without a configuration, the
\* position query and move all complete.
C9_NoOperationFails == ~err

\* Constructed without a configuration, queried, then moved, with no error.
C9_Witness ==
    /\ ~err
    /\ op.name = "move"
    /\ Bound(op.node)
    /\ \E s \in SnapVars : snapVar[s].t = "ref"
    /\ NodeFields(op.node) = Pair(op.x, op.y)

\* C10: a step changes the pair a node holds only as a whole, to the two
\* arguments of one move; a position query observes the pair the node held,
\* so no observed pair mixes the x of one operation with the y of another.
C10_NoPartialUpdate ==
    [][\A n \in NodeVars : Bound(n) =>
            /\ \/ Fields(heap', nodeVar'[n]) = Fields(heap, nodeVar[n])
               \/ /\ op'.name = "move" /\ op'.node = n
                  /\ Fields(heap', nodeVar'[n]) = Pair(op'.x, op'.y)
            /\ (op'.name = "position" /\ op'.node = n) =>
                  Fields(heap', snapVar'[op'.snap]) = Fields(heap, nodeVar[n])
      ]_vars

\* A move just replaced both coordinates: the object queried before it holds
\* another x and another y.
C10_Witness ==
    /\ op.name = "move"
    /\ Bound(op.node)
    /\ NodeFields(op.node) = Pair(op.x, op.y)
    /\ \E s \in SnapVars :
          /\ snapVar[s].t = "ref"
          /\ Fields(heap, snapVar[s]).x # op.x
          /\ Fields(heap, snapVar[s]).y # op.y

\* The object variables that hold an object.
Held == {s \in DOMAIN snapVar : snapVar[s].t = "ref"}

\* C11: each position query returns a new object, aliased neither to the node
\* nor to an object returned earlier: the query leaves the objects returned
\* earlier as they are, a move leaves every returned object with the
\* coordinate it was created with, and a write to one returned object leaves
\* the other returned objects unchanged.
C11_SnapshotsNotAliased ==
    [][/\ op'.name = "position" =>
            /\ snapVar'[op'.snap] # nodeVar[op'.node]
            /\ \A s \in Held : snapVar'[op'.snap] # snapVar[s]
            /\ \A s \in Held \ {op'.snap} : Fields(heap', snapVar'[s]) = Fields(heap, snapVar[s])
       /\ op'.name = "move" =>
            \A s \in Held : snapVar'[s] = snapVar[s] /\ Fields(heap', snapVar'[s]) = Fields(heap, snapVar[s])
       /\ op'.name = "setSnap" =>
            \A s \in Held \ {op'.snap} : Fields(heap', snapVar'[s]) = Fields(heap, snapVar[s])
      ]_vars

\* Two objects returned by the node's getter, one taken before a move and one
\* after it; the first was then written to and the second kept the node's pair.
C11_Witness ==
    /\ op.name = "setSnap" /\ op.snap = "first"
    /\ Held = {"first", "second"}
    /\ snapVar["first"] # snapVar["second"]
    /\ lastSet["canvasNode"].by = "move"
    /\ Fields(heap, snapVar["second"]) = NodeFields("canvasNode")
    /\ Fields(heap, snapVar["first"]).x # NodeFields("canvasNode").x
    /\ Fields(heap, snapVar["first"]).y # NodeFields("canvasNode").y

\* C13: nodes share no state: a step that constructs, moves or queries one
\* node leaves every other node's x and y as they were, so that a node holds
\* the pair of its own last move, or of its own construction.
C13_NodesShareNoState ==
    /\ [](\A n \in DOMAIN nodeVar : Bound(n) =>
              NodeFields(n) = Pair(lastSet[n].x, lastSet[n].y))
    /\ [][\A n \in DOMAIN nodeVar : (Bound(n) /\ op'.node # n) =>
              /\ nodeVar'[n] = nodeVar[n]
              /\ Fields(heap', nodeVar'[n]) = Fields(heap, nodeVar[n])
        ]_vars

\* Two nodes, both moved, the left one last, holding pairs that differ in x
\* and in y.
C13_Witness ==
    /\ op.name = "move" /\ op.node = "left"
    /\ DOMAIN nodeVar = {"left", "right"}
    /\ Bound("left") /\ Bound("right")
    /\ nodeVar["left"] # nodeVar["right"]
    /\ lastSet["right"].by = "move"
    /\ NodeFields("left") = Pair(op.x, op.y)
    /\ NodeFields("right").x # op.x
    /\ NodeFields("right").y # op.y

\* The pair the operation that last set node n was given.
Given(n) == Pair(SuppliedX(n), SuppliedY(n))

\* C15: move overwrites, whatever the node held: two nodes whose last setting
\* operations were given the same pair of numbers, be it a construction with
\* { x: a, y: b } or a move(a, b) after any history, hold the same x and y; and
\* a move repeated with the same arguments changes nothing.
C15_MoveOverwrites ==
    /\ [](\A n1 \in DOMAIN nodeVar, n2 \in DOMAIN nodeVar :
              (/\ Bound(n1) /\ Bound(n2)
               /\ IsNumber(SuppliedX(n1)) /\ IsNumber(SuppliedY(n1))
               /\ Given(n1) = Given(n2))
                  => NodeFields(n1) = NodeFields(n2))
    /\ [][op'.name = "move" =>
              /\ Fields(heap', nodeVar'[op'.node]) = Pair(op'.x, op'.y)
              /\ (op.name = "move" /\ op.node = op'.node /\ op.x = op'.x /\ op.y = op'.y)
                    => heap' = heap
        ]_vars

\* left constructed with { x: 1, y: -1 } and not moved, right constructed
\* with no configuration and moved by move(1, -1): the same x and y.
C15_Witness ==
    /\ DOMAIN nodeVar = {"left", "right"}
    /\ Bound("left") /\ Bound("right")
    /\ lastSet["left"].by = "new" /\ lastSet["left"].arg = "object"
    /\ lastSet["left"].cx = Fin(1) /\ lastSet["left"].cy = Fin(-1)
    /\ lastSet["right"].by = "move"
    /\ lastSet["right"].x = Fin(1) /\ lastSet["right"].y = Fin(-1)
    /\ NodeFields("left") = Pair(Fin(1), Fin(-1))
    /\ NodeFields("right") = NodeFields("left")

\* The configuration variables that hold an object.
HeldConfigs == {c \in ConfigVars \cap DOMAIN snapVar : snapVar[c].t = "ref"}

\* C14: the constructor copies x and y out of the configuration and keeps no
\* reference to it: the node is another object than the configuration and
\* construction leaves the configuration as it was; a later write to the
\* configuration changes neither the node's fields nor what its next position
\* query returns; a move leaves the configuration unchanged.
C14_ConfigurationCopied ==
    [][/\ op'.name = "new" =>
            \A c \in HeldConfigs :
                /\ nodeVar'[op'.node] # snapVar[c]
                /\ snapVar'[c] = snapVar[c]
                /\ Fields(heap', snapVar'[c]) = Fields(heap, snapVar[c])
       /\ (op'.name = "setSnap" /\ op'.snap \in ConfigVars) =>
            \A n \in DOMAIN nodeVar : Bound(n) =>
                /\ nodeVar'[n] = nodeVar[n]
                /\ Fields(heap', nodeVar'[n]) = Fields(heap, nodeVar[n])
       /\ (op.name = "setSnap" /\ op.snap \in ConfigVars /\ op'.name = "position") =>
            Fields(heap', snapVar'[op'.snap]) = Pair(lastSet[op'.node].x, lastSet[op'.node].y)
       /\ op'.name = "move" =>
            \A c \in HeldConfigs :
                /\ snapVar'[c] = snapVar[c]
                /\ Fields(heap', snapVar'[c]) = Fields(heap, snapVar[c])
      ]_vars

\* The node was constructed from the configuration { x: 1, y: 1 }; the
\* configuration's x was then overwritten with 0 and the node still holds 1.
C14_Witness ==
    /\ op.name = "setSnap" /\ op.snap = "config"
    /\ Bound("canvasNode")
    /\ lastSet["canvasNode"].by = "new" /\ lastSet["canvasNode"].arg = "object"
    /\ lastSet["canvasNode"].cx = Fin(1) /\ lastSet["canvasNode"].cy = Fin(1)
    /\ NodeFields("canvasNode") = Pair(Fin(1), Fin(1))
    /\ Fields(heap, snapVar["config"]) = Pair(Fin(0), Fin(1))

\* C12: two nodes constructed with the same configuration and given the same
\* sequence of moves and position queries return equal position results at
\* every query, and hold equal x and y after every step.
C12_SameOperationsSameResults ==
    /\ (nodeVar["left"].t = "ref" /\ nodeVar["right"].t = "ref") =>
            Fields(heap, nodeVar["left"]) = Fields(heap, nodeVar["right"])
    /\ (snapVar["leftPos"].t = "ref" /\ snapVar["rightPos"].t = "ref") =>
            Fields(heap, snapVar["leftPos"]) = Fields(heap, snapVar["rightPos"])

\* Both nodes constructed, moved by move(1, NaN) and queried: two objects,
\* both { x: 1, y: NaN }.
C12_Witness ==
    /\ op.name = "position"
    /\ nodeVar["left"].t = "ref" /\ nodeVar["right"].t = "ref"
    /\ nodeVar["left"] # nodeVar["right"]
    /\ snapVar["leftPos"].t = "ref" /\ snapVar["rightPos"].t = "ref"
    /\ snapVar["leftPos"] # snapVar["rightPos"]
    /\ lastSet["left"].by = "move"
    /\ Fields(heap, snapVar["leftPos"]) = Pair(Fin(1), NaN)
    /\ Fields(heap, snapVar["rightPos"]) = Pair(Fin(1), NaN)

====
